---- MODULE Spec2Model ----
(***************************************************************************)
(* A model of the plonky2x beacon gadgets and of the map/reduce example    *)
(* pipeline:                                                               *)
(*   - the SSZ Merkle root restoration gadgets (dynamic and constant       *)
(*     generalized index) of frontend/eth/beacon/builder.rs,               *)
(*   - the beacon builder operations that stage generator outputs,         *)
(*   - ByteVariable and BeaconValidatorVariable (vars/byte.rs,             *)
(*     eth/beacon/vars/validator.rs),                                      *)
(*   - the build / map / reduce stages of                                  *)
(*     examples/beacon-validator-statistics/src/main.rs.                   *)
(***************************************************************************)
EXTENDS Integers, Sequences, FiniteSets, TLC

VARIABLES
    \* ---- Merkle gadget circuit (builder.rs) ----
    leaf,        \* value carried by the leaf Bytes32Variable
    branch,      \* values carried by the branch variables, lowest level first
    gindex,      \* the generalized index (u64 / U64Variable value)
    root,        \* value of the root the proof is checked against
    gates,       \* gadgets and constraints added to the CircuitBuilder so far
    dynRoot,     \* value of the variable returned by ssz_restore_merkle_root
    constRoot,   \* value of the variable returned by ssz_restore_merkle_root_const
    asserted,    \* which restored roots an equality assertion has been added for
    phase,       \* "composing", "panicked", "built", "proved", "prove_failed", "verified"
    \* ---- beacon builder operations (builder.rs) ----
    generators,  \* generators added to the CircuitBuilder by add_simple_generator
    constraints, \* gadgets and constraints the beacon operations added
    returned,    \* what each beacon operation handed back to the circuit author
    \* ---- ByteVariable (vars/byte.rs) ----
    byteValue,   \* the u8 given to constant / set
    byteVia,     \* "none", "constant" or "set": how the eight bits were assigned
    byteWires,   \* values of the eight BoolVariables, position 0 first
    byteRead,    \* result of value(), NoByte before it is called
    \* ---- BeaconValidatorVariable (eth/beacon/vars/validator.rs) ----
    validator,   \* the BeaconValidator record given to constant / set
    variable,    \* the BeaconValidatorVariable: the targets of each field
    witness,     \* the value assigned to each field's variable
    readBack,    \* result of value(), NoValidator before it is called
    flat,        \* result of targets()
    rebuilt,     \* result of from_targets(flat)
    \* ---- build / map / reduce stages (examples/.../main.rs) ----
    input,       \* the input value x every map instance is run on
    artifacts,   \* circuit artifacts persisted by build
    pc,          \* position of each stage invocation
    args,        \* command-line payload of each stage invocation
    pw,          \* PartialWitness of each stage invocation
    proofs,      \* proof returned by prove in each stage invocation
    proofFile,   \* content of ./proof.json
    collected,   \* proof record the orchestration picked up after each invocation
    argc,        \* number of values / proofs each invocation is given
    decodedWith  \* circuit whose common data each incoming proof was decoded against

merkleVars == <<leaf, branch, gindex, root, gates, dynRoot, constRoot, asserted, phase>>
beaconVars == <<generators, constraints, returned>>
byteVars == <<byteValue, byteVia, byteWires, byteRead>>
validatorVars == <<validator, variable, witness, readBack, flat, rebuilt>>
pipelineVars ==
    <<input, artifacts, pc, args, pw, proofs, proofFile, collected, argc, decodedWith>>

vars == <<merkleVars, beaconVars, byteVars, validatorVars, pipelineVars>>

notMerkle == <<beaconVars, byteVars, validatorVars, pipelineVars>>
notBeacon == <<merkleVars, byteVars, validatorVars, pipelineVars>>
notByte == <<merkleVars, beaconVars, validatorVars, pipelineVars>>
notValidator == <<merkleVars, beaconVars, byteVars, pipelineVars>>
notPipeline == <<merkleVars, beaconVars, byteVars, validatorVars>>

(***************************************************************************)
(* Each specification below exercises one part of the program; the parts   *)
(* it does not exercise stay in the state given here.                      *)
(***************************************************************************)
MerkleIdle ==
    /\ leaf = <<>> /\ branch = <<>> /\ gindex = 0 /\ root = <<>>
    /\ gates = <<>> /\ dynRoot = <<>> /\ constRoot = <<>>
    /\ asserted = {} /\ phase = "idle"

BeaconIdle == generators = <<>> /\ constraints = <<>> /\ returned = <<>>

ByteIdle == byteValue = 0 /\ byteVia = "none" /\ byteWires = <<>> /\ byteRead = <<>>

ValidatorIdle ==
    /\ validator = <<>> /\ variable = <<>> /\ witness = <<>>
    /\ readBack = <<>> /\ flat = <<>> /\ rebuilt = <<>>

PipelineIdle ==
    /\ input = 0 /\ artifacts = {} /\ pc = <<>> /\ args = <<>>
    /\ pw = <<>> /\ proofs = <<>> /\ proofFile = <<>> /\ collected = <<>>
    /\ argc = <<>> /\ decodedWith = <<>>

(***************************************************************************)
(* Bounds of the model.                                                    *)
(***************************************************************************)
MaxDepth == 2      \* longest Merkle branch drawn
MaxGindex == 9     \* largest generalized index drawn

(***************************************************************************)
(* Program constants.                                                      *)
(***************************************************************************)
U64Bits == 64      \* width of gindex: u64 / U64Variable

(***************************************************************************)
(* Digests.  A 32-byte digest is either one of the named input digests or  *)
(* the SHA-256 of a 64-byte block.  SHA-256 is a black box to the gadget;  *)
(* it is modelled as a collision-free function: the digest of a block is   *)
(* represented by the pair of 32-byte halves it was computed from.         *)
(***************************************************************************)
InputDigests == {<<"D">>, <<"S0">>, <<"S1">>}
NoDigest == <<>>

\* data[..32].copy_from_slice(first); data[32..].copy_from_slice(second)
Block64(first, second) == <<first, second>>

sha256(data) == <<data[1], data[2]>>

select(cond, a, b) == IF cond THEN a ELSE b

\* x >> n (0 >> n = 0)
RECURSIVE ShiftRight(_, _)
ShiftRight(x, n) == IF n = 0 \/ x = 0 THEN x ELSE ShiftRight(x \div 2, n - 1)

\* little-endian bits of a U64Variable: bits[i] has weight 2^i
to_le_bits(x) == [i \in 0..(U64Bits - 1) |-> ShiftRight(x, i) % 2 = 1]

(***************************************************************************)
(* Gates recorded in the builder.                                          *)
(* Each gate names the gadget that added it ("dyn", "const" or "assert").  *)
(***************************************************************************)
ShaGate(by, first, second, out) ==
    [by |-> by, op |-> "sha256", cond |-> FALSE, a |-> first, b |-> second, out |-> out]

SelectGate(by, cond, a, b, out) ==
    [by |-> by, op |-> "select", cond |-> cond, a |-> a, b |-> b, out |-> out]

AssertGate(a, b) ==
    [by |-> "assert", op |-> "assert_is_equal", cond |-> FALSE, a |-> a, b |-> b,
     out |-> NoDigest]

(***************************************************************************)
(* ssz_restore_merkle_root: one iteration of the loop (builder.rs          *)
(* 141-155).  Both concatenation orders are hashed and bits[i] selects.    *)
(***************************************************************************)
DynLevelSwapped(hash, sibling, bit) ==
    LET left == sibling
        right == hash
        case1 == sha256(Block64(left, right))
        case2 == sha256(Block64(right, left))
        out == select(bit, case2, case1)
    IN  [hash |-> out,
         gates |-> <<ShaGate("dyn", left, right, case1),
                     ShaGate("dyn", right, left, case2),
                     SelectGate("dyn", bit, case2, case1, out)>>]

DynLevel(hash, sibling, bit) ==
    LET left == sibling
        right == hash
        case1 == sha256(Block64(left, right))
        case2 == sha256(Block64(right, left))
        out == select(bit, case1, case2)
    IN  [hash |-> out,
         gates |-> <<ShaGate("dyn", left, right, case1),
                     ShaGate("dyn", right, left, case2),
                     SelectGate("dyn", bit, case1, case2, out)>>]

\* The loop `for i in 0..branch.len()` over the levels lo .. hi-1, carrying
\* the running hash and the gates added so far.  The range is split in
\* halves so that the evaluation depth is logarithmic in the branch length;
\* the test on Len(st.gates) is never true and only makes the evaluation of
\* the first half strict, as the loop of the code is.
RECURSIVE DynRange(_, _, _, _, _)
DynRange(st, br, bits, lo, hi) ==
    IF lo >= hi \/ Len(st.gates) < 0 THEN st
    ELSE IF hi = lo + 1
    THEN LET lv == DynLevel(st.hash, br[lo + 1], bits[lo])
         IN  [hash |-> lv.hash, gates |-> st.gates \o lv.gates]
    ELSE LET mid == (lo + hi) \div 2
         IN  DynRange(DynRange(st, br, bits, lo, mid), br, bits, mid, hi)

DynLoop(hash, gs, br, bits, i) ==
    DynRange([hash |-> hash, gates |-> gs], br, bits, i, Len(br))

ssz_restore_merkle_root_from_bit_one(lf, br, gi) ==
    LET bits == to_le_bits(gi \div 2)
    IN  DynLoop(lf, <<>>, br, bits, 0)

ssz_restore_merkle_root(lf, br, gi) ==
    LET bits == to_le_bits(gi)
    IN  DynLoop(lf, <<>>, br, bits, 0)

(***************************************************************************)
(* ssz_restore_merkle_root_const (builder.rs 160-180).                     *)
(***************************************************************************)
\* assert!(2u64.pow(branch.len() as u32 + 1) > gindex): 2u64.pow overflows
\* when the exponent reaches the width of u64; the overflow either panics
\* (overflow checks on) or wraps to 0 (overflow checks off), and 0 > gindex
\* is false, so the assertion fails in both builds.
GindexInRangeOffByOne(len, gi) ==
    /\ len + 1 < U64Bits
    /\ 2 ^ (len + 1) >= gi

GindexInRange(len, gi) ==
    /\ len + 1 < U64Bits
    /\ 2 ^ (len + 1) > gi

ConstLevel(hash, sibling, gi, i) ==
    LET pair == IF ShiftRight(gi, i) % 2 = 1
                THEN <<sibling, hash>>
                ELSE <<hash, sibling>>
        out == sha256(Block64(pair[1], pair[2]))
    IN  [hash |-> out, gates |-> <<ShaGate("const", pair[1], pair[2], out)>>]

\* the loop over the levels lo .. hi-1, as DynRange
RECURSIVE ConstRange(_, _, _, _, _)
ConstRange(st, br, gi, lo, hi) ==
    IF lo >= hi \/ Len(st.gates) < 0 THEN st
    ELSE IF hi = lo + 1
    THEN LET lv == ConstLevel(st.hash, br[lo + 1], gi, lo)
         IN  [hash |-> lv.hash, gates |-> st.gates \o lv.gates]
    ELSE LET mid == (lo + hi) \div 2
         IN  ConstRange(ConstRange(st, br, gi, lo, mid), br, gi, mid, hi)

ConstLoop(hash, gs, br, gi, i) ==
    ConstRange([hash |-> hash, gates |-> gs], br, gi, i, Len(br))

\* the value returned when the assertion passes
ssz_restore_merkle_root_const(lf, br, gi) == ConstLoop(lf, <<>>, br, gi, 0)

(***************************************************************************)
(* The inputs.                                                             *)
(***************************************************************************)
RECURSIVE SeqsUpTo(_, _)
SeqsUpTo(S, n) ==
    IF n = 0 THEN {<<>>}
    ELSE LET shorter == SeqsUpTo(S, n - 1)
         IN  shorter \cup {Append(s, x) : s \in {t \in shorter : Len(t) = n - 1}, x \in S}

\* the longest branch a u64 generalized index can address: U64Bits - 1
\* siblings, for the indices 2^63 .. 2^64 - 1
RECURSIVE Replicate(_, _)
Replicate(x, n) == IF n = 0 THEN <<>> ELSE Append(Replicate(x, n - 1), x)

DeepestBranch == Replicate(<<"S0">>, U64Bits - 1)

Branches == SeqsUpTo(InputDigests \ {<<"D">>}, MaxDepth) \cup {DeepestBranch}
Gindexes == 0..MaxGindex

\* the roots a caller may claim: a named digest, or the root restored from
\* the same leaf and branch under some index
ClaimedRoots(lf, br) ==
    InputDigests \cup {ssz_restore_merkle_root_const(lf, br, g).hash : g \in Gindexes}

MerkleInit ==
    /\ leaf \in {<<"D">>, <<"S0">>}
    /\ branch \in Branches
    /\ gindex \in Gindexes
    /\ root \in ClaimedRoots(leaf, branch)
    /\ gates = <<>>
    /\ dynRoot = NoDigest
    /\ constRoot = NoDigest
    /\ asserted = {}
    /\ phase = "composing"
    /\ BeaconIdle /\ ByteIdle /\ ValidatorIdle /\ PipelineIdle

(***************************************************************************)
(* Builder operations on the Merkle circuit.                               *)
(***************************************************************************)
SszRestoreMerkleRoot ==
    /\ phase = "composing"
    /\ dynRoot = NoDigest
    /\ LET r == ssz_restore_merkle_root(leaf, branch, gindex)
       IN  /\ gates' = gates \o r.gates
           /\ dynRoot' = r.hash
    /\ UNCHANGED <<leaf, branch, gindex, root, constRoot, asserted, phase>>
    /\ UNCHANGED notMerkle

SszRestoreMerkleRootConst ==
    /\ phase = "composing"
    /\ constRoot = NoDigest
    /\ IF GindexInRange(Len(branch), gindex)
       THEN LET r == ssz_restore_merkle_root_const(leaf, branch, gindex)
            IN  /\ gates' = gates \o r.gates
                /\ constRoot' = r.hash
                /\ phase' = phase
       ELSE /\ phase' = "panicked"
            /\ UNCHANGED <<gates, constRoot>>
    /\ UNCHANGED <<leaf, branch, gindex, root, dynRoot, asserted>>
    /\ UNCHANGED notMerkle

\* builder.assert_is_equal(expected_root, computed_root) on a restored root
AssertIsEqualDyn ==
    /\ phase = "composing"
    /\ dynRoot # NoDigest
    /\ "dyn" \notin asserted
    /\ gates' = Append(gates, AssertGate(root, dynRoot))
    /\ asserted' = asserted \cup {"dyn"}
    /\ UNCHANGED <<leaf, branch, gindex, root, dynRoot, constRoot, phase>>
    /\ UNCHANGED notMerkle

AssertIsEqualConst ==
    /\ phase = "composing"
    /\ constRoot # NoDigest
    /\ "const" \notin asserted
    /\ gates' = Append(gates, AssertGate(root, constRoot))
    /\ asserted' = asserted \cup {"const"}
    /\ UNCHANGED <<leaf, branch, gindex, root, dynRoot, constRoot, phase>>
    /\ UNCHANGED notMerkle

SszVerifyProof ==
    /\ phase = "composing"
    /\ dynRoot = NoDigest
    /\ LET r == ssz_restore_merkle_root(leaf, branch, gindex)
       IN  /\ gates' = (gates \o r.gates) \o <<AssertGate(root, r.hash)>>
           /\ dynRoot' = r.hash
    /\ asserted' = asserted \cup {"dyn"}
    /\ UNCHANGED <<leaf, branch, gindex, root, constRoot, phase>>
    /\ UNCHANGED notMerkle

SszVerifyProofConstWrongOperand ==
    /\ phase = "composing"
    /\ constRoot = NoDigest
    /\ IF GindexInRange(Len(branch), gindex)
       THEN LET r == ssz_restore_merkle_root_const(leaf, branch, gindex)
            IN  /\ gates' = (gates \o r.gates) \o <<AssertGate(leaf, r.hash)>>
                /\ constRoot' = r.hash
                /\ asserted' = asserted \cup {"const"}
                /\ phase' = phase
       ELSE /\ phase' = "panicked"
            /\ UNCHANGED <<gates, constRoot, asserted>>
    /\ UNCHANGED <<leaf, branch, gindex, root, dynRoot>>
    /\ UNCHANGED notMerkle

SszVerifyProofConst ==
    /\ phase = "composing"
    /\ constRoot = NoDigest
    /\ IF GindexInRange(Len(branch), gindex)
       THEN LET r == ssz_restore_merkle_root_const(leaf, branch, gindex)
            IN  /\ gates' = (gates \o r.gates) \o <<AssertGate(root, r.hash)>>
                /\ constRoot' = r.hash
                /\ asserted' = asserted \cup {"const"}
                /\ phase' = phase
       ELSE /\ phase' = "panicked"
            /\ UNCHANGED <<gates, constRoot, asserted>>
    /\ UNCHANGED <<leaf, branch, gindex, root, dynRoot>>
    /\ UNCHANGED notMerkle

\* builder.build::<C>()
MerkleBuild ==
    /\ phase = "composing"
    /\ phase' = "built"
    /\ UNCHANGED <<leaf, branch, gindex, root, gates, dynRoot, constRoot, asserted>>
    /\ UNCHANGED notMerkle

\* the witness satisfies the circuit iff every equality assertion holds
Satisfied(gs) ==
    \A n \in 1..Len(gs) : gs[n].op = "assert_is_equal" => gs[n].a = gs[n].b

\* circuit.prove(&input): no proof exists for an unsatisfied circuit
MerkleProve ==
    /\ phase = "built"
    /\ phase' = IF Satisfied(gates) THEN "proved" ELSE "prove_failed"
    /\ UNCHANGED <<leaf, branch, gindex, root, gates, dynRoot, constRoot, asserted>>
    /\ UNCHANGED notMerkle

\* circuit.verify(&proof, &input, &output)
MerkleVerify ==
    /\ phase = "proved"
    /\ phase' = "verified"
    /\ UNCHANGED <<leaf, branch, gindex, root, gates, dynRoot, constRoot, asserted>>
    /\ UNCHANGED notMerkle

MerkleNext ==
    \/ SszRestoreMerkleRoot
    \/ SszRestoreMerkleRootConst
    \/ AssertIsEqualDyn
    \/ AssertIsEqualConst
    \/ SszVerifyProof
    \/ SszVerifyProofConst
    \/ MerkleBuild
    \/ MerkleProve
    \/ MerkleVerify

SpecMerkle == MerkleInit /\ [][MerkleNext]_vars

(***************************************************************************)
(* Properties of the Merkle gadgets.                                       *)
(***************************************************************************)
IsDynGate(g) == g.by = "dyn"
IsConstGate(g) == g.by = "const"
DynGates == SelectSeq(gates, IsDynGate)
ConstGates == SelectSeq(gates, IsConstGate)

BitOf(x, i) == ShiftRight(x, i) % 2

\* the 64-byte block the claim prescribes at level i (0-based) for running hash h
PrescribedInput(h, i) ==
    IF BitOf(gindex, i) = 1 THEN <<branch[i + 1], h>> ELSE <<h, branch[i + 1]>>

\* the block whose digest the dynamic gadget selected at level i
DynSelectedInput(i) ==
    LET g1 == DynGates[3 * i + 1]
        g2 == DynGates[3 * i + 2]
        sel == DynGates[3 * i + 3]
    IN  IF sel.out = g1.out THEN <<g1.a, g1.b>> ELSE <<g2.a, g2.b>>

DynHashBefore(i) == IF i = 0 THEN leaf ELSE DynGates[3 * i].out
ConstHashBefore(i) == IF i = 0 THEN leaf ELSE ConstGates[i].out

\* i < 2^(k+1), for a u64 index i: every u64 is below 2^64
InRange == Len(branch) + 1 >= U64Bits \/ gindex < 2 ^ (Len(branch) + 1)

SameRootAndInputs ==
    /\ phase # "panicked"
    /\ dynRoot # NoDigest =>
          /\ Len(DynGates) = 3 * Len(branch)
          /\ \A i \in 0..(Len(branch) - 1) :
                DynSelectedInput(i) = PrescribedInput(DynHashBefore(i), i)
    /\ constRoot # NoDigest =>
          /\ Len(ConstGates) = Len(branch)
          /\ \A i \in 0..(Len(branch) - 1) :
                <<ConstGates[i + 1].a, ConstGates[i + 1].b>>
                    = PrescribedInput(ConstHashBefore(i), i)
    /\ (dynRoot # NoDigest /\ constRoot # NoDigest) => dynRoot = constRoot

\* C1: for every leaf, branch of length k and index i < 2^(k+1), the
\* dynamic-index and the constant-index restoration compute the same root,
\* and at each level both hash sibling||hash when bit i of the index is 1
\* and hash||sibling when it is 0.
C1_DynConstSameRoot == InRange => SameRootAndInputs

\* The same, for the branch lengths k <= 62 for which 2^(k+1) fits in a u64.
SameRootWherePowerFits ==
    (InRange /\ Len(branch) + 1 < U64Bits) => SameRootAndInputs

DigestD == <<"D">>
DigestS0 == <<"S0">>
DigestS1 == <<"S1">>
Scenario == leaf = DigestD /\ branch = <<DigestS0, DigestS1>> /\ gindex = 2

\* C2 as stated: leaf D, branch [S0, S1], index 2 restores
\* R = H(S0 || H(D || S1)) in both variants.
C2_Original ==
    LET R == sha256(Block64(DigestS0, sha256(Block64(DigestD, DigestS1))))
    IN  Scenario =>
            /\ dynRoot # NoDigest => dynRoot = R
            /\ constRoot # NoDigest => constRoot = R

\* C2 amended: leaf D, branch [S0, S1] (lowest level first), index 2
\* (bit 0 = 0, bit 1 = 1) restores R = H(S1 || H(D || S0)) in both variants.
C2_ScenarioRoot ==
    LET R == sha256(Block64(DigestS1, sha256(Block64(DigestD, DigestS0))))
    IN  Scenario =>
            /\ dynRoot # NoDigest => dynRoot = R
            /\ constRoot # NoDigest => constRoot = R

C2_Witness ==
    /\ Scenario
    /\ dynRoot # NoDigest
    /\ constRoot # NoDigest

HasAssertOn(restored) ==
    \E n \in 1..Len(gates) : gates[n] = AssertGate(root, restored)

Mismatch ==
    \/ "dyn" \in asserted /\ root # dynRoot
    \/ "const" \in asserted /\ root # constRoot

\* C3: when the claimed root differs from the restored root, the equality
\* assertion added for it (by ssz_verify_proof, ssz_verify_proof_const or
\* assert_is_equal) is unsatisfied and no proof is produced or verified;
\* when every asserted restored root equals the claimed root, proving does
\* not fail.  Both variants.
C3_WrongRootNoProof ==
    /\ "dyn" \in asserted => HasAssertOn(dynRoot)
    /\ "const" \in asserted => HasAssertOn(constRoot)
    /\ Mismatch => phase \notin {"proved", "verified"}
    /\ phase = "prove_failed" => Mismatch

C3_Witness ==
    /\ phase = "prove_failed"
    /\ asserted = {"dyn", "const"}
    /\ Len(branch) = 2
    /\ root # constRoot
    /\ dynRoot = constRoot

NoConstGadget ==
    /\ constRoot = NoDigest
    /\ Len(ConstGates) = 0
    /\ "const" \notin asserted

\* C4: constructing the constant-index gadget with an index i >= 2^(k+1)
\* panics during construction: no hash gate of the gadget is added, no
\* root is returned, and the builder never reaches build or prove.
C4_ConstIndexOutOfRange ==
    [][/\ ~InRange => NoConstGadget'
       /\ (~InRange /\ (SszRestoreMerkleRootConst \/ SszVerifyProofConst)) =>
              (phase' = "panicked" /\ gates' = gates)
       /\ phase = "panicked" => (phase' = "panicked" /\ gates' = gates)]_vars

C4_Witness ==
    /\ phase = "panicked"
    /\ ~InRange
    /\ Len(branch) = 2
    /\ dynRoot # NoDigest

(***************************************************************************)
(* The beacon builder operations (builder.rs, lines 17-106).  A circuit    *)
(* variable is named by a tuple <<kind, n, i>>; the output of a hash       *)
(* gadget is the pair of its inputs, as for the Merkle circuit above.      *)
(***************************************************************************)
MaxOps == 3                  \* builder operations composed into one circuit

ValidatorsGindex == 363      \* let gindex = 363u64
ValidatorsProofDepth == 8    \* number of siblings in generator.proof

BlockRootVariables == {<<"block_root", 1, 0>>, <<"block_root", 2, 0>>}
IndexVariables == {<<"index", 1, 0>>}
PubkeyVariables == {<<"pubkey", 1, 0>>}
ConstIndexes == {0, 5}

\* BeaconValidatorsRootGenerator::new reserves the generator's output
\* variables: validators_root and the branch proof
BeaconValidatorsRootGenerator(n, block_root) ==
    [kind |-> "BeaconValidatorsRootGenerator",
     inputs |-> <<block_root>>,
     validators_root |-> <<"validators_root", n, 0>>,
     proof |-> [i \in 1..ValidatorsProofDepth |-> <<"proof", n, i>>]]

\* BeaconValidatorGenerator::new_with_*: reserves the validator output
BeaconValidatorGenerator(n, mode, block_root, selector) ==
    [kind |-> "BeaconValidatorGenerator",
     mode |-> mode,
     inputs |-> <<block_root, selector>>,
     validator |-> <<"validator", n, 0>>]

\* BeaconValidatorBalanceGenerator::new_with_*: reserves the balance output
BeaconValidatorBalanceGenerator(n, mode, block_root, selector) ==
    [kind |-> "BeaconValidatorBalanceGenerator",
     mode |-> mode,
     inputs |-> <<block_root, selector>>,
     balance |-> <<"balance", n, 0>>]

\* generator.out()
GeneratorOut(generator) ==
    IF generator.kind = "BeaconValidatorGenerator"
    THEN generator.validator
    ELSE generator.balance

\* the BeaconValidatorsVariable values handed back so far
ValidatorsHandles ==
    {returned[n].value : n \in {m \in 1..Len(returned) :
                                   returned[m].op = "beacon_get_validators"}}

BeaconInit ==
    /\ generators = <<>>
    /\ constraints = <<>>
    /\ returned = <<>>
    /\ MerkleIdle /\ ByteIdle /\ ValidatorIdle /\ PipelineIdle

BeaconGetValidators ==
    /\ Len(returned) < MaxOps
    /\ \E block_root \in BlockRootVariables :
          LET generator == BeaconValidatorsRootGenerator(Len(generators) + 1, block_root)
              r == ssz_restore_merkle_root_const(generator.validators_root,
                                                 generator.proof, ValidatorsGindex)
          IN  /\ GindexInRange(Len(generator.proof), ValidatorsGindex)
              /\ generators' = Append(generators, generator)
              /\ constraints' = (constraints \o r.gates)
                                    \o <<AssertGate(block_root, r.hash)>>
              /\ returned' = Append(returned,
                    [op |-> "beacon_get_validators",
                     value |-> [block_root |-> block_root,
                                validators_root |-> generator.validators_root],
                     outputs |-> {generator.validators_root}])
    /\ UNCHANGED notBeacon

\* the five operations that add a generator and return generator.out()
GetFromGenerator(op, generator) ==
    /\ generators' = Append(generators, generator)
    /\ constraints' = constraints
    /\ returned' = Append(returned,
          [op |-> op,
           value |-> GeneratorOut(generator),
           outputs |-> {GeneratorOut(generator)}])

BeaconGetValidator ==
    /\ Len(returned) < MaxOps
    /\ \E validators \in ValidatorsHandles, index \in IndexVariables :
          GetFromGenerator("beacon_get_validator",
              BeaconValidatorGenerator(Len(generators) + 1, "index_variable",
                                       validators.block_root, index))
    /\ UNCHANGED notBeacon

BeaconGetValidatorConst ==
    /\ Len(returned) < MaxOps
    /\ \E validators \in ValidatorsHandles, index \in ConstIndexes :
          GetFromGenerator("beacon_get_validator_const",
              BeaconValidatorGenerator(Len(generators) + 1, "index_const",
                                       validators.block_root, <<"const", index, 0>>))
    /\ UNCHANGED notBeacon

BeaconGetValidatorByPubkey ==
    /\ Len(returned) < MaxOps
    /\ \E validators \in ValidatorsHandles, pubkey \in PubkeyVariables :
          GetFromGenerator("beacon_get_validator_by_pubkey",
              BeaconValidatorGenerator(Len(generators) + 1, "pubkey_variable",
                                       validators.block_root, pubkey))
    /\ UNCHANGED notBeacon

BeaconGetValidatorBalance ==
    /\ Len(returned) < MaxOps
    /\ \E validators \in ValidatorsHandles, index \in IndexVariables :
          GetFromGenerator("beacon_get_validator_balance",
              BeaconValidatorBalanceGenerator(Len(generators) + 1, "index_variable",
                                              validators.block_root, index))
    /\ UNCHANGED notBeacon

BeaconGetValidatorBalanceByPubkey ==
    /\ Len(returned) < MaxOps
    /\ \E validators \in ValidatorsHandles, pubkey \in PubkeyVariables :
          GetFromGenerator("beacon_get_validator_balance_by_pubkey",
              BeaconValidatorBalanceGenerator(Len(generators) + 1, "pubkey_variable",
                                              validators.block_root, pubkey))
    /\ UNCHANGED notBeacon

BeaconNext ==
    \/ BeaconGetValidators
    \/ BeaconGetValidator
    \/ BeaconGetValidatorConst
    \/ BeaconGetValidatorByPubkey
    \/ BeaconGetValidatorBalance
    \/ BeaconGetValidatorBalanceByPubkey

SpecBeacon == BeaconInit /\ [][BeaconNext]_vars

(***************************************************************************)
(* Properties of the beacon builder operations.                            *)
(***************************************************************************)
\* the variables an equality assertion against an already-constrained root
\* depends on: the asserted operands and, through the hash gadgets, the
\* inputs they were computed from
AssertedOperands ==
    {constraints[n].b : n \in {m \in 1..Len(constraints) :
        /\ constraints[m].op = "assert_is_equal"
        /\ constraints[m].a \in BlockRootVariables}}

RECURSIVE VerifiedClosure(_)
VerifiedClosure(S) ==
    LET T == S \cup UNION {{constraints[n].a, constraints[n].b} :
                 n \in {m \in 1..Len(constraints) :
                    /\ constraints[m].op = "sha256"
                    /\ constraints[m].out \in S}}
    IN  IF T = S THEN S ELSE VerifiedClosure(T)

VerifiedVariables == VerifiedClosure(AssertedOperands)

OutputsVerified(n) == returned[n].outputs \subseteq VerifiedVariables

\* C5: every builder operation that stages generator outputs also adds a
\* Merkle verification constraint tying those outputs to an
\* already-constrained root: no returned generator output is unconstrained.
C5_GeneratorOutputsVerified ==
    \A n \in 1..Len(returned) : OutputsVerified(n)

\* beacon_get_validators, the one operation that calls
\* ssz_verify_proof_const, does tie its output to the block root
ValidatorsRootVerified ==
    \A n \in 1..Len(returned) :
        returned[n].op = "beacon_get_validators" => OutputsVerified(n)

\* the other five operations add no constraint at all
OnlyValidatorsRootConstrained ==
    \A n \in 1..Len(returned) :
        returned[n].op # "beacon_get_validators" =>
            returned[n].outputs \cap VerifiedVariables = {}

(***************************************************************************)
(* ByteVariable (vars/byte.rs): eight BoolVariables, position 0 first.     *)
(***************************************************************************)
ByteMax == 255               \* type ValueType = u8

\* a & b on unsigned integers
RECURSIVE BitAnd(_, _)
BitAnd(a, b) ==
    IF a = 0 \/ b = 0 THEN 0
    ELSE (a % 2) * (b % 2) + 2 * BitAnd(a \div 2, b \div 2)

\* x << n
ShiftLeft(x, n) == x * 2 ^ n

BoolAsU64(bit) == IF bit THEN 1 ELSE 0

\* constant: value_be_bits, the values of the eight constant BoolVariables
ByteVariable_constant(value) ==
    [i \in 0..7 |-> BitAnd(ShiftLeft(1, 7 - i), value) # 0]

ByteVariable_set_little_endian(value) ==
    [i \in 0..7 |-> BitAnd(ShiftLeft(1, i), value) # 0]

\* set: value_be_bits, written to the eight BoolVariables in order
ByteVariable_set(value) ==
    [i \in 0..7 |-> BitAnd(ShiftLeft(1, 7 - i), value) # 0]

\* value: the loop over i in 0..8 accumulating (1 << (7 - i)) * bit
RECURSIVE ByteAccumulate(_, _, _)
ByteAccumulate(bits, i, acc) ==
    IF i = 8 THEN acc
    ELSE ByteAccumulate(bits, i + 1, acc + ShiftLeft(1, 7 - i) * BoolAsU64(bits[i]))

\* value: acc as u8
ByteVariable_value(bits) == ByteAccumulate(bits, 0, 0) % (ByteMax + 1)

ByteInit ==
    /\ byteValue \in 0..ByteMax
    /\ byteVia = "none"
    /\ byteWires = <<>>
    /\ byteRead = <<>>
    /\ MerkleIdle /\ BeaconIdle /\ ValidatorIdle /\ PipelineIdle

ByteConstant ==
    /\ byteVia = "none"
    /\ byteWires' = ByteVariable_constant(byteValue)
    /\ byteVia' = "constant"
    /\ UNCHANGED <<byteValue, byteRead>>
    /\ UNCHANGED notByte

ByteSet ==
    /\ byteVia = "none"
    /\ byteWires' = ByteVariable_set(byteValue)
    /\ byteVia' = "set"
    /\ UNCHANGED <<byteValue, byteRead>>
    /\ UNCHANGED notByte

ByteValue ==
    /\ byteVia # "none"
    /\ byteRead = <<>>
    /\ byteRead' = <<ByteVariable_value(byteWires)>>
    /\ UNCHANGED <<byteValue, byteVia, byteWires>>
    /\ UNCHANGED notByte

ByteNext == ByteConstant \/ ByteSet \/ ByteValue

SpecByte == ByteInit /\ [][ByteNext]_vars

(***************************************************************************)
(* Properties of ByteVariable.                                             *)
(***************************************************************************)
\* the bit of weight 2^w of v
BitOfWeight(v, w) == (v \div (2 ^ w)) % 2 = 1

\* C8: for every byte value v in 0..255, constant(v) and set(v) assign to
\* bit position i (0..7) the bit of weight 2^(7-i) of v, so position 0 is
\* the most-significant bit, and value() read back from that assignment
\* returns exactly v.
C8_ByteBigEndianRoundTrip ==
    /\ byteVia # "none" =>
          \A i \in 0..7 : byteWires[i] = BitOfWeight(byteValue, 7 - i)
    /\ byteRead # <<>> => byteRead = <<byteValue>>

C8_Witness ==
    /\ byteValue = 165
    /\ byteVia = "set"
    /\ byteWires[0] /\ ~byteWires[1] /\ byteWires[7]
    /\ byteRead = <<165>>

(***************************************************************************)
(* BeaconValidatorVariable (eth/beacon/vars/validator.rs).                 *)
(* A target is a wire number.  An Option is <<>> (None) or <<v>> (Some).   *)
(* A hex string is the sequence of its digits' values; a U256 is its four  *)
(* 64-bit limbs, least significant first.                                  *)
(***************************************************************************)
MaxBase == 1                 \* wires the builder allocated before init runs

\* targets of the child variables
PubkeyTargets == 384         \* BLSPubkeyVariable
Bytes32Targets == 256        \* Bytes32Variable
U256Targets == 4             \* U256Variable
BoolTargets == 1             \* BoolVariable

None == <<>>
Some(v) == <<v>>
unwrap_or(option, default) == IF option = None THEN default ELSE option[1]

\* bytes!(..) and bytes32!(..): the bytes a hex string spells
bytes(h) == [i \in 1..(Len(h) \div 2) |-> 16 * h[2 * i - 1] + h[2 * i]]
bytes32(h) == [i \in 1..(Len(h) \div 2) |-> 16 * h[2 * i - 1] + h[2 * i]]

\* hex!(..): the hex string spelling a byte sequence
hex(b) ==
    [i \in 1..(2 * Len(b)) |->
        IF i % 2 = 1 THEN b[(i + 1) \div 2] \div 16 ELSE b[i \div 2] % 16]

\* u64 .into() U256
U256From(v) == <<v, 0, 0, 0>>

\* U256::as_u64 gives the low limb and panics when the value does not fit
FitsU64(u) == u[2] = 0 /\ u[3] = 0 /\ u[4] = 0
as_u64(u) == u[1]

\* n fresh targets from the builder, the first numbered from
Wires(from, n) == [i \in 1..n |-> from + i - 1]

\* init: the children are initialised in field order
BeaconValidatorVariable_init(base) ==
    LET p1 == base + PubkeyTargets
        p2 == p1 + Bytes32Targets
        p3 == p2 + U256Targets
        p4 == p3 + BoolTargets
        p5 == p4 + U256Targets
        p6 == p5 + U256Targets
        p7 == p6 + U256Targets
    IN  [pubkey |-> Wires(base, PubkeyTargets),
         withdrawal_credentials |-> Wires(p1, Bytes32Targets),
         effective_balance |-> Wires(p2, U256Targets),
         slashed |-> Wires(p3, BoolTargets),
         activation_eligibility_epoch |-> Wires(p4, U256Targets),
         activation_epoch |-> Wires(p5, U256Targets),
         exit_epoch |-> Wires(p6, U256Targets),
         withdrawable_epoch |-> Wires(p7, U256Targets)]

\* constant: the value each constant child variable is fixed to
BeaconValidatorVariable_constant(value) ==
    [pubkey |-> bytes(value.pubkey),
     withdrawal_credentials |-> bytes32(value.withdrawal_credentials),
     effective_balance |-> U256From(value.effective_balance),
     slashed |-> value.slashed,
     activation_eligibility_epoch |-> U256From(value.activation_eligibility_epoch),
     activation_epoch |-> U256From(value.activation_epoch),
     exit_epoch |-> U256From(unwrap_or(value.exit_epoch, 0)),
     withdrawable_epoch |-> U256From(unwrap_or(value.withdrawable_epoch, 0))]

BeaconValidatorVariable_targets(x) ==
    ((((((x.pubkey \o x.withdrawal_credentials) \o x.effective_balance)
        \o x.slashed) \o x.activation_eligibility_epoch)
        \o x.activation_epoch) \o x.exit_epoch) \o x.withdrawable_epoch

\* &targets[lo..hi]
Slice(ts, lo, hi) == SubSeq(ts, lo + 1, hi)

BeaconValidatorVariable_from_targets_no_advance(ts) ==
    LET ptr0 == 0
        ptr1 == ptr0 + 384
        ptr2 == ptr1 + 256
        ptr3 == ptr2 + 4
        ptr4 == ptr3
        ptr5 == ptr4 + 4
        ptr6 == ptr5 + 4
        ptr7 == ptr6 + 4
    IN  [pubkey |-> Slice(ts, ptr0, ptr0 + 384),
         withdrawal_credentials |-> Slice(ts, ptr1, ptr1 + 256),
         effective_balance |-> Slice(ts, ptr2, ptr2 + 4),
         slashed |-> Slice(ts, ptr3, ptr3 + 1),
         activation_eligibility_epoch |-> Slice(ts, ptr4, ptr4 + 4),
         activation_epoch |-> Slice(ts, ptr5, ptr5 + 4),
         exit_epoch |-> Slice(ts, ptr6, ptr6 + 4),
         withdrawable_epoch |-> Slice(ts, ptr7, ptr7 + 4)]

\* from_targets: ptr0..ptr7 are the values ptr takes
BeaconValidatorVariable_from_targets(ts) ==
    LET ptr0 == 0
        ptr1 == ptr0 + 384
        ptr2 == ptr1 + 256
        ptr3 == ptr2 + 4
        ptr4 == ptr3 + 1
        ptr5 == ptr4 + 4
        ptr6 == ptr5 + 4
        ptr7 == ptr6 + 4
    IN  [pubkey |-> Slice(ts, ptr0, ptr0 + 384),
         withdrawal_credentials |-> Slice(ts, ptr1, ptr1 + 256),
         effective_balance |-> Slice(ts, ptr2, ptr2 + 4),
         slashed |-> Slice(ts, ptr3, ptr3 + 1),
         activation_eligibility_epoch |-> Slice(ts, ptr4, ptr4 + 4),
         activation_epoch |-> Slice(ts, ptr5, ptr5 + 4),
         exit_epoch |-> Slice(ts, ptr6, ptr6 + 4),
         withdrawable_epoch |-> Slice(ts, ptr7, ptr7 + 4)]

\* value: do the four U256 values read fit a u64 (as_u64 panics otherwise)
ValueFits(w) ==
    /\ FitsU64(w.effective_balance)
    /\ FitsU64(w.activation_eligibility_epoch)
    /\ FitsU64(w.activation_epoch)
    /\ FitsU64(w.exit_epoch)
    /\ FitsU64(w.withdrawable_epoch)

BeaconValidatorVariable_value(w) ==
    [pubkey |-> hex(w.pubkey),
     withdrawal_credentials |-> hex(w.withdrawal_credentials),
     effective_balance |-> as_u64(w.effective_balance),
     slashed |-> w.slashed,
     activation_eligibility_epoch |-> as_u64(w.activation_eligibility_epoch),
     activation_epoch |-> as_u64(w.activation_epoch),
     exit_epoch |-> Some(as_u64(w.exit_epoch)),
     withdrawable_epoch |-> Some(as_u64(w.withdrawable_epoch))]

\* set: the value written to each child variable
BeaconValidatorVariable_set(value) ==
    [pubkey |-> bytes(value.pubkey),
     withdrawal_credentials |-> bytes32(value.withdrawal_credentials),
     effective_balance |-> U256From(value.effective_balance),
     slashed |-> value.slashed,
     activation_eligibility_epoch |-> U256From(value.activation_eligibility_epoch),
     activation_epoch |-> U256From(value.activation_epoch),
     exit_epoch |-> U256From(unwrap_or(value.exit_epoch, 0)),
     withdrawable_epoch |-> U256From(unwrap_or(value.withdrawable_epoch, 0))]

\* the BeaconValidator records drawn
Pubkeys == {<<10, 11>>, <<0, 1>>}
WithdrawalCredentials == {<<0, 15>>}
Balances == {0, 32}
Epochs == {0, 7}
OptionalEpochs == {None, Some(0), Some(7)}

BeaconValidators ==
    [pubkey : Pubkeys,
     withdrawal_credentials : WithdrawalCredentials,
     effective_balance : Balances,
     slashed : BOOLEAN,
     activation_eligibility_epoch : {0},
     activation_epoch : Epochs,
     exit_epoch : OptionalEpochs,
     withdrawable_epoch : OptionalEpochs]

ValidatorInitState ==
    /\ validator \in BeaconValidators
    /\ variable = <<>>
    /\ witness = <<>>
    /\ readBack = <<>>
    /\ flat = <<>>
    /\ rebuilt = <<>>
    /\ MerkleIdle /\ BeaconIdle /\ ByteIdle /\ PipelineIdle

\* builder.init::<BeaconValidatorVariable>()
ValidatorInit ==
    /\ variable = <<>>
    /\ \E base \in 0..MaxBase : variable' = <<BeaconValidatorVariable_init(base)>>
    /\ UNCHANGED <<validator, witness, readBack, flat, rebuilt>>
    /\ UNCHANGED notValidator

\* builder.constant::<BeaconValidatorVariable>(validator)
ValidatorConstant ==
    /\ variable = <<>>
    /\ \E base \in 0..MaxBase : variable' = <<BeaconValidatorVariable_init(base)>>
    /\ witness' = <<BeaconValidatorVariable_constant(validator)>>
    /\ UNCHANGED <<validator, readBack, flat, rebuilt>>
    /\ UNCHANGED notValidator

ValidatorSet ==
    /\ variable # <<>>
    /\ witness = <<>>
    /\ witness' = <<BeaconValidatorVariable_set(validator)>>
    /\ UNCHANGED <<validator, variable, readBack, flat, rebuilt>>
    /\ UNCHANGED notValidator

\* a U256 that does not fit 64 bits: 2^64 + 5
WideValues == {<<5, 1, 0, 0>>}

\* the child variables are public and can be written one by one, as a
\* generator does: here one balance or epoch is given a wide value
ValidatorSetChildren ==
    /\ variable # <<>>
    /\ witness = <<>>
    /\ \E u \in WideValues :
          \/ witness' = <<[BeaconValidatorVariable_set(validator)
                              EXCEPT !.effective_balance = u]>>
          \/ witness' = <<[BeaconValidatorVariable_set(validator)
                              EXCEPT !.exit_epoch = u]>>
    /\ UNCHANGED <<validator, variable, readBack, flat, rebuilt>>
    /\ UNCHANGED notValidator

ValidatorValue ==
    /\ variable # <<>>
    /\ witness # <<>>
    /\ readBack = <<>>
    /\ readBack' = IF ValueFits(witness[1])
                   THEN <<BeaconValidatorVariable_value(witness[1])>>
                   ELSE <<"panic">>
    /\ UNCHANGED <<validator, variable, witness, flat, rebuilt>>
    /\ UNCHANGED notValidator

ValidatorTargets ==
    /\ variable # <<>>
    /\ flat = <<>>
    /\ flat' = BeaconValidatorVariable_targets(variable[1])
    /\ UNCHANGED <<validator, variable, witness, readBack, rebuilt>>
    /\ UNCHANGED notValidator

ValidatorFromTargets ==
    /\ flat # <<>>
    /\ rebuilt = <<>>
    /\ rebuilt' = <<BeaconValidatorVariable_from_targets(flat)>>
    /\ UNCHANGED <<validator, variable, witness, readBack, flat>>
    /\ UNCHANGED notValidator

ValidatorNext ==
    \/ ValidatorInit
    \/ ValidatorConstant
    \/ ValidatorSet
    \/ ValidatorSetChildren
    \/ ValidatorValue
    \/ ValidatorTargets
    \/ ValidatorFromTargets

SpecValidator == ValidatorInitState /\ [][ValidatorNext]_vars

(***************************************************************************)
(* Properties of BeaconValidatorVariable.                                  *)
(***************************************************************************)
\* C6: for every validator record v, including records whose exit_epoch or
\* withdrawable_epoch is absent, set(w, v) followed by value(w) returns
\* exactly v.
C6_SetThenValue ==
    (readBack # <<>> /\ witness = <<BeaconValidatorVariable_set(validator)>>)
        => readBack = <<validator>>

\* what value() does return: v with an absent epoch read back as Some(0)
SetThenValueDefaultsAbsentEpochs ==
    (readBack # <<>> /\ witness = <<BeaconValidatorVariable_set(validator)>>) =>
        readBack = <<[validator EXCEPT
                        !.exit_epoch = Some(unwrap_or(@, 0)),
                        !.withdrawable_epoch = Some(unwrap_or(@, 0))]>>

\* C7: targets(x) has length 661, laid out as pubkey (384),
\* withdrawal_credentials (256), effective_balance (4), slashed (1),
\* activation_eligibility_epoch (4), activation_epoch (4), exit_epoch (4),
\* withdrawable_epoch (4), and from_targets(targets(x)) rebuilds x with
\* every field on the same wires.
C7_TargetsLayout ==
    /\ flat # <<>> =>
          /\ Len(flat) = 661
          /\ SubSeq(flat, 1, 384) = variable[1].pubkey
          /\ SubSeq(flat, 385, 640) = variable[1].withdrawal_credentials
          /\ SubSeq(flat, 641, 644) = variable[1].effective_balance
          /\ SubSeq(flat, 645, 645) = variable[1].slashed
          /\ SubSeq(flat, 646, 649) = variable[1].activation_eligibility_epoch
          /\ SubSeq(flat, 650, 653) = variable[1].activation_epoch
          /\ SubSeq(flat, 654, 657) = variable[1].exit_epoch
          /\ SubSeq(flat, 658, 661) = variable[1].withdrawable_epoch
          /\ Cardinality({flat[i] : i \in 1..Len(flat)}) = Len(flat)
    /\ rebuilt # <<>> => rebuilt = variable

C7_Witness ==
    /\ variable # <<>>
    /\ Len(flat) = 661
    /\ rebuilt = variable
    /\ variable[1].slashed = <<645>>
    /\ variable[1].withdrawable_epoch = <<658, 659, 660, 661>>

\* C15: when a wire assignment decodes to a value outside the declared
\* domain (a balance or epoch U256 that does not fit in 64 bits), value()
\* reports a MalformedValue error as a result instead of panicking or
\* returning a truncated value.
C15_MalformedValueReported ==
    (readBack # <<>> /\ ~ValueFits(witness[1]))
        => readBack = <<"MalformedValue">>

\* what value() does on such an assignment: as_u64 panics
WideValuePanics ==
    (readBack # <<>> /\ ~ValueFits(witness[1])) => readBack = <<"panic">>

(***************************************************************************)
(* The build / map / reduce stages (examples/.../main.rs).  Every stage    *)
(* invocation is a process of its own; they share the persisted artifacts  *)
(* and the file ./proof.json.  Invocations 1..NumInputs are the map        *)
(* instances, the others the reduce nodes of the binary tree above them.   *)
(* A proof is a record; `by` names the invocation that proved it and       *)
(* `tree` the proofs it was reduced from.                                  *)
(***************************************************************************)
NumInputs == 4               \* vec![input, input, input, input]
MaxRunning == 2              \* stage invocations running at the same time

InputValues == {0, 1, 100}

MapJobs == 1..NumInputs
ReduceJobs == (NumInputs + 1)..(2 * NumInputs - 1)
Jobs == MapJobs \cup ReduceJobs
FinalJob == 2 * NumInputs - 1

\* the two invocations whose proofs reduce node j combines
Children(j) == <<2 * (j - NumInputs) - 1, 2 * (j - NumInputs)>>

\* builder.add on Variables; every value here is far below the field order
add(a, b) == a + b

MapFnAddsNothing(x) == add(x, 0)

\* the map closure: |input, builder| input + constant(1)
MapFn(x) == add(x, 1)

\* the reduce closure: |left, right, builder| left + right
ReduceFn(left, right) == add(left, right)

\* the artifacts builder.mapreduce compiles and persists
MapArtifact ==
    [id |-> "map", input_targets |-> <<"input">>, proof_targets |-> <<>>]
ReduceArtifact ==
    [id |-> "reduce", input_targets |-> <<>>, proof_targets |-> <<"left", "right">>]

ArtifactOf(j) == IF j \in MapJobs THEN MapArtifact ELSE ReduceArtifact

\* proof.to_bytes(), hex::encode, hex::decode
to_bytes(proof) == <<"bytes", proof>>
hex_encode(bs) == <<"hex", bs>>
hex_decode(h) == h[2]

\* the record serialised into ./proof.json
ProofRecord(proof) == [bytes |-> hex_encode(to_bytes(proof))]

\* what a decoder makes of bytes that do not have the shape it expects
Garbled ==
    [circuit |-> "garbled", public_inputs |-> <<>>, by |-> 0, tree |-> <<>>,
     verifies |-> FALSE]
DecodeError ==
    [circuit |-> "error", public_inputs |-> <<>>, by |-> 0, tree |-> <<>>,
     verifies |-> FALSE]

\* buffer.read_proof_with_public_inputs(&common): bytes of a proof of the
\* same circuit decode to that proof; bytes of another circuit's proof may
\* decode to it (the shapes agree), to garbage, or fail to decode
read_proof_with_public_inputs(bs, common) ==
    IF bs[2].circuit = common
    THEN {bs[2]}
    ELSE {bs[2], Garbled, DecodeError}

\* the outcomes of decoding every proof of the list against common
DecodeAll(list, common) ==
    {ds \in [1..Len(list) ->
                UNION {read_proof_with_public_inputs(list[i], common) :
                          i \in 1..Len(list)}] :
        \A i \in 1..Len(list) : ds[i] \in read_proof_with_public_inputs(list[i], common)}

\* the number of input targets or proof targets of the artifact j loads
TargetCount(j) ==
    Len(ArtifactOf(j).input_targets) + Len(ArtifactOf(j).proof_targets)

Running == {j \in Jobs : pc[j] \in {"bound", "proved", "verified"}}
Failed == {"bind_failed", "prove_failed", "verify_failed"}

\* the orchestration picks up the record of every invocation that has ended
\* before it starts another one
AllPickedUp == \A k \in Jobs : pc[k] = "written" => collected[k] # <<>>

PipelineInit ==
    /\ input \in InputValues
    /\ artifacts = {}
    /\ pc = [j \in Jobs |-> "idle"]
    /\ args = [j \in Jobs |-> <<>>]
    /\ pw = [j \in Jobs |-> <<>>]
    /\ proofs = [j \in Jobs |-> <<>>]
    /\ proofFile = <<>>
    /\ collected = [j \in Jobs |-> <<>>]
    /\ argc = [j \in Jobs |-> TargetCount(j)]
    /\ decodedWith = [j \in Jobs |-> <<>>]
    /\ MerkleIdle /\ BeaconIdle /\ ByteIdle /\ ValidatorIdle

\* cmd == "build"
Build ==
    /\ artifacts = {}
    /\ artifacts' = {MapArtifact, ReduceArtifact}
    /\ UNCHANGED <<input, pc, args, pw, proofs, proofFile, collected, argc, decodedWith>>
    /\ UNCHANGED notPipeline

\* cmd == "map", up to the call of prove: the arguments are read, the
\* artifact is loaded and the input targets are set
MapStart(j) ==
    /\ j \in MapJobs
    /\ pc[j] = "idle"
    /\ MapArtifact \in artifacts
    /\ Cardinality(Running) < MaxRunning
    /\ AllPickedUp
    /\ LET input_values == [i \in 1..argc[j] |-> input]
           input_targets == MapArtifact.input_targets
       IN  /\ args' = [args EXCEPT ![j] = input_values]
           /\ IF Len(input_values) < Len(input_targets)
              THEN /\ pc' = [pc EXCEPT ![j] = "bind_failed"]
                   /\ pw' = pw
              ELSE /\ pc' = [pc EXCEPT ![j] = "bound"]
                   /\ pw' = [pw EXCEPT ![j] =
                               [i \in 1..Len(input_targets) |-> input_values[i]]]
    /\ UNCHANGED <<input, artifacts, argc, decodedWith, proofs, proofFile, collected>>
    /\ UNCHANGED notPipeline

\* circuit.prove(pw).unwrap() in the map stage
MapProve(j) ==
    /\ j \in MapJobs
    /\ pc[j] = "bound"
    /\ IF Len(pw[j]) = Len(MapArtifact.input_targets)
       THEN \E ok \in BOOLEAN :
               /\ proofs' = [proofs EXCEPT ![j] =
                     <<[circuit |-> MapArtifact.id,
                        public_inputs |-> <<MapFn(pw[j][1])>>,
                        by |-> j,
                        tree |-> <<j>>,
                        verifies |-> ok]>>]
               /\ pc' = [pc EXCEPT ![j] = "proved"]
       ELSE /\ pc' = [pc EXCEPT ![j] = "prove_failed"]
            /\ proofs' = proofs
    /\ UNCHANGED <<input, artifacts, argc, decodedWith, args, pw, proofFile, collected>>
    /\ UNCHANGED notPipeline

\* circuit.verify(proof.clone()).unwrap() in the map stage
MapVerify(j) ==
    /\ j \in MapJobs
    /\ pc[j] = "proved"
    /\ pc' = [pc EXCEPT ![j] =
                IF proofs[j][1].verifies /\ proofs[j][1].circuit = MapArtifact.id
                THEN "verified" ELSE "verify_failed"]
    /\ UNCHANGED <<input, artifacts, argc, decodedWith, args, pw, proofs, proofFile, collected>>
    /\ UNCHANGED notPipeline

MapWriteBeforeVerify(j) ==
    /\ j \in MapJobs
    /\ pc[j] = "proved"
    /\ proofFile' = <<ProofRecord(proofs[j][1])>>
    /\ pc' = [pc EXCEPT ![j] = "written"]
    /\ UNCHANGED <<input, artifacts, argc, decodedWith, args, pw, proofs, collected>>
    /\ UNCHANGED notPipeline

\* std::fs::write("./proof.json", json) in the map stage
MapWrite(j) ==
    /\ j \in MapJobs
    /\ pc[j] = "verified"
    /\ proofFile' = <<ProofRecord(proofs[j][1])>>
    /\ pc' = [pc EXCEPT ![j] = "written"]
    /\ UNCHANGED <<input, artifacts, argc, decodedWith, args, pw, proofs, collected>>
    /\ UNCHANGED notPipeline

\* cmd == "reduce", up to the call of prove: the proofs are hex-decoded,
\* the artifact is loaded, every proof is decoded against the loaded
\* circuit's common data and bound to a proof target
ReduceStart(j) ==
    /\ j \in ReduceJobs
    /\ pc[j] = "idle"
    /\ ReduceArtifact \in artifacts
    /\ Cardinality(Running) < MaxRunning
    /\ AllPickedUp
    /\ \A n \in 1..2 : collected[Children(j)[n]] # <<>>
    /\ LET hexes == [n \in 1..argc[j] |->
                       collected[Children(j)[2 - (n % 2)]][1].bytes]
           proof_bytes_list == [n \in 1..Len(hexes) |-> hex_decode(hexes[n])]
           proof_targets == ReduceArtifact.proof_targets
       IN  /\ args' = [args EXCEPT ![j] = hexes]
           /\ \E decoded \in DecodeAll(proof_bytes_list, ReduceArtifact.id) :
                 IF \/ \E n \in 1..Len(decoded) : decoded[n] = DecodeError
                    \/ Len(proof_bytes_list) > Len(proof_targets)
                 THEN /\ pc' = [pc EXCEPT ![j] = "bind_failed"]
                      /\ pw' = pw
                 ELSE /\ pc' = [pc EXCEPT ![j] = "bound"]
                      /\ pw' = [pw EXCEPT ![j] = decoded]
           /\ decodedWith' = [decodedWith EXCEPT ![j] =
                 [n \in 1..Len(proof_bytes_list) |-> ReduceArtifact.id]]
    /\ UNCHANGED <<input, artifacts, argc, proofs, proofFile, collected>>
    /\ UNCHANGED notPipeline

\* the reduce circuit verifies both child proofs and adds their outputs
ReduceSatisfied(w) ==
    /\ Len(w) = Len(ReduceArtifact.proof_targets)
    /\ \A n \in 1..Len(w) : w[n].verifies /\ w[n].circuit \in {"map", "reduce"}

\* circuit.prove(pw).unwrap() in the reduce stage
ReduceProve(j) ==
    /\ j \in ReduceJobs
    /\ pc[j] = "bound"
    /\ IF ReduceSatisfied(pw[j])
       THEN \E ok \in BOOLEAN :
               /\ proofs' = [proofs EXCEPT ![j] =
                     <<[circuit |-> ReduceArtifact.id,
                        public_inputs |->
                            <<ReduceFn(pw[j][1].public_inputs[1],
                                       pw[j][2].public_inputs[1])>>,
                        by |-> j,
                        tree |-> <<pw[j][1].tree, pw[j][2].tree>>,
                        verifies |-> ok]>>]
               /\ pc' = [pc EXCEPT ![j] = "proved"]
       ELSE /\ pc' = [pc EXCEPT ![j] = "prove_failed"]
            /\ proofs' = proofs
    /\ UNCHANGED <<input, artifacts, argc, decodedWith, args, pw, proofFile, collected>>
    /\ UNCHANGED notPipeline

\* circuit.verify(proof.clone()).unwrap() in the reduce stage
ReduceVerify(j) ==
    /\ j \in ReduceJobs
    /\ pc[j] = "proved"
    /\ pc' = [pc EXCEPT ![j] =
                IF proofs[j][1].verifies /\ proofs[j][1].circuit = ReduceArtifact.id
                THEN "verified" ELSE "verify_failed"]
    /\ UNCHANGED <<input, artifacts, argc, decodedWith, args, pw, proofs, proofFile, collected>>
    /\ UNCHANGED notPipeline

\* std::fs::write("./proof.json", json) in the reduce stage
ReduceWrite(j) ==
    /\ j \in ReduceJobs
    /\ pc[j] = "verified"
    /\ proofFile' = <<ProofRecord(proofs[j][1])>>
    /\ pc' = [pc EXCEPT ![j] = "written"]
    /\ UNCHANGED <<input, artifacts, argc, decodedWith, args, pw, proofs, collected>>
    /\ UNCHANGED notPipeline

\* the orchestration picks ./proof.json up after invocation j has ended
Collect(j) ==
    /\ pc[j] = "written"
    /\ collected[j] = <<>>
    /\ proofFile # <<>>
    /\ collected' = [collected EXCEPT ![j] = proofFile]
    /\ UNCHANGED <<input, artifacts, argc, decodedWith, pc, args, pw, proofs, proofFile>>
    /\ UNCHANGED notPipeline

PipelineNext ==
    \/ Build
    \/ \E j \in Jobs : MapStart(j)
    \/ \E j \in Jobs : MapProve(j)
    \/ \E j \in Jobs : MapVerify(j)
    \/ \E j \in Jobs : MapWrite(j)
    \/ \E j \in Jobs : ReduceStart(j)
    \/ \E j \in Jobs : ReduceProve(j)
    \/ \E j \in Jobs : ReduceVerify(j)
    \/ \E j \in Jobs : ReduceWrite(j)
    \/ \E j \in Jobs : Collect(j)

SpecPipeline == PipelineInit /\ [][PipelineNext]_vars

(***************************************************************************)
(* Properties of the pipeline.                                             *)
(***************************************************************************)
\* the proof a record of ./proof.json holds
ProofIn(record) == hex_decode(record.bytes)[2]

\* the four map proofs, pairwise reduced in a two-level binary tree
TwoLevelTree == <<<<<<1>>, <<2>>>>, <<<<3>>, <<4>>>>>>

\* C9: with N = 4 copies of the input x, f(x) = x + 1 and g(a, b) = a + b,
\* once the four map proofs have been pairwise reduced in a two-level
\* binary tree the final proof's public output is 4 * (x + 1), for
\* x = 0, 1 and 100.
C9_FinalOutput ==
    (/\ collected[FinalJob] # <<>>
     /\ ProofIn(collected[FinalJob][1]).tree = TwoLevelTree)
        => ProofIn(collected[FinalJob][1]).public_inputs = <<4 * (input + 1)>>

C9_Witness ==
    /\ input = 100
    /\ collected[FinalJob] # <<>>
    /\ ProofIn(collected[FinalJob][1]).tree = TwoLevelTree
    /\ ProofIn(collected[FinalJob][1]).public_inputs = <<404>>

\* C10: in every run of the map stage and of the reduce stage the proof
\* record is written only after prove has succeeded and verify of that same
\* proof against the loaded artifact has succeeded; when prove or verify
\* fails the stage aborts and writes no record.
C10_RecordOnlyAfterVerify ==
    [][/\ \A j \in Jobs :
            (pc[j] # "written" /\ pc'[j] = "written") =>
                /\ pc[j] = "verified"
                /\ proofs[j] # <<>>
                /\ proofs[j][1].verifies
                /\ proofs[j][1].circuit = ArtifactOf(j).id
                /\ proofs[j][1].by = j
                /\ proofFile' = <<ProofRecord(proofs[j][1])>>
       /\ proofFile' # proofFile =>
            \E j \in Jobs : pc[j] = "verified" /\ pc'[j] = "written"
       /\ \A j \in Jobs : pc[j] \in Failed => pc'[j] = pc[j]
      ]_vars

C10_Witness ==
    /\ \E j \in Jobs :
          /\ pc[j] = "written"
          /\ proofFile = <<ProofRecord(proofs[j][1])>>
    /\ \E j \in MapJobs : pc[j] = "verify_failed"
    /\ \E j \in ReduceJobs : pc[j] = "prove_failed"

(***************************************************************************)
(* The stages invoked with a payload whose size differs from the number    *)
(* of targets of the artifact: the same stages, started from an            *)
(* orchestration that may give some invocation fewer or more values or     *)
(* proofs than its artifact has targets.                                   *)
(***************************************************************************)
MaxMismatched == 1           \* invocations given a payload of the wrong size

\* fewer than, as many as, or more than the artifact's targets
PayloadSizes(j) == (TargetCount(j) - 1)..(TargetCount(j) + 1)

Mismatched(j) == argc[j] # TargetCount(j)

MismatchInit ==
    /\ input = 1
    /\ artifacts = {}
    /\ pc = [j \in Jobs |-> "idle"]
    /\ args = [j \in Jobs |-> <<>>]
    /\ pw = [j \in Jobs |-> <<>>]
    /\ proofs = [j \in Jobs |-> <<>>]
    /\ proofFile = <<>>
    /\ collected = [j \in Jobs |-> <<>>]
    /\ argc \in {a \in [Jobs -> 0..3] :
                    /\ \A j \in Jobs : a[j] \in PayloadSizes(j)
                    /\ Cardinality({j \in Jobs : a[j] # TargetCount(j)}) <= MaxMismatched}
    /\ decodedWith = [j \in Jobs |-> <<>>]
    /\ MerkleIdle /\ BeaconIdle /\ ByteIdle /\ ValidatorIdle

SpecMismatch == MismatchInit /\ [][PipelineNext]_vars

\* positions of a stage before circuit.prove has been called
BeforeProve == {"idle", "bind_failed", "bound"}

\* C11: when the number of input values given to the map stage, or of
\* proofs given to the reduce stage, differs from the number of targets of
\* the loaded artifact (fewer or more), the stage fails with an
\* artifact-mismatch error before prove is invoked.
C11_MismatchFailsBeforeProve ==
    \A j \in Jobs :
        Mismatched(j) => pc[j] \in BeforeProve

\* the two mismatches the stages do stop on, by indexing past the end of
\* input_values in the map stage and of proof_targets in the reduce stage
IndexedMismatchPanics ==
    \A j \in Jobs :
        (\/ j \in MapJobs /\ argc[j] < TargetCount(j)
         \/ j \in ReduceJobs /\ argc[j] > TargetCount(j))
            => pc[j] \in {"idle", "bind_failed"}

\* the other two reach prove: surplus input values are ignored
SurplusValuesIgnored ==
    \A j \in MapJobs :
        (argc[j] > TargetCount(j) /\ pc[j] \notin BeforeProve)
            => proofs[j] # <<>> /\ proofs[j][1].public_inputs = <<MapFn(input)>>

\* C12: the reduce stage never invokes prove unless both child proofs
\* exist and have been bound to the reduce artifact's two proof targets; a
\* reduce invocation given fewer than two child proofs does not reach prove.
C12_ReduceProvesOnlyWithBothChildren ==
    \A j \in ReduceJobs :
        pc[j] \notin BeforeProve =>
            /\ Len(args[j]) >= Len(ReduceArtifact.proof_targets)
            /\ Len(pw[j]) = Len(ReduceArtifact.proof_targets)

\* what the reduce stage does with one proof: it binds it, calls prove, and
\* prove fails on the unbound proof target
ReduceWithOneProofFailsInProve ==
    \A j \in ReduceJobs :
        (argc[j] < TargetCount(j) /\ pc[j] \notin BeforeProve)
            => pc[j] = "prove_failed"

\* the circuit that produced the n-th proof given to invocation j
ProducerOf(j, n) == hex_decode(args[j][n])[2].circuit

\* C13: in the reduce stage each incoming child proof is decoded against
\* the shape of the artifact that produced it (the map artifact for a
\* level-1 reduce, the reduce artifact above), not against the shape of the
\* artifact the reduce stage has loaded for proving.
C13_DecodedAgainstProducer ==
    \A j \in ReduceJobs :
        \A n \in 1..Len(decodedWith[j]) : decodedWith[j][n] = ProducerOf(j, n)

\* what the stage does: every proof is decoded against the loaded artifact
DecodedAgainstLoadedArtifact ==
    \A j \in ReduceJobs :
        \A n \in 1..Len(decodedWith[j]) : decodedWith[j][n] = ArtifactOf(j).id

\* C14: map invocations (and same-level reduce invocations) run as
\* concurrent processes share no mutable state but the read-only artifact:
\* under any interleaving, the proof each invocation emitted is still
\* available to the next stage afterwards, not overwritten by another
\* invocation's output.
C14_EmittedProofStaysAvailable ==
    \A j \in Jobs :
        pc[j] = "written" =>
            IF collected[j] = <<>>
            THEN proofFile = <<ProofRecord(proofs[j][1])>>
            ELSE collected[j] = <<ProofRecord(proofs[j][1])>>

\* how an invocation that has stopped at p ends: every failing step is an
\* unwrap() of an Err (or an index out of bounds) in main, so the process
\* panics; only a stage that wrote its record returns normally
ExitOf(p) ==
    IF p = "written" THEN "ok"
    ELSE IF p \in Failed THEN "panic"
    ELSE "running"

\* C16: a stage whose witness does not satisfy the circuit ends with a
\* failed-proof result, distinguishable from a crash, and not with an
\* unhandled panic.
C16_FailedProofIsAResult ==
    \A j \in Jobs :
        pc[j] = "prove_failed" =>
            /\ ExitOf(pc[j]) = "failed_proof"
            /\ ExitOf(pc[j]) # ExitOf("bind_failed")

\* what the stages do: a failed prove ends exactly as any other failure
FailedProofPanics ==
    \A j \in Jobs : pc[j] = "prove_failed" => ExitOf(pc[j]) = "panic"

(***************************************************************************)
(* The dynamic-index gadget and the high bits of the index.                *)
(***************************************************************************)
\* i mod 2^k = j mod 2^k.  The indices drawn are far below 2^31, so for a
\* branch of 31 siblings or more each index is its own residue.
SameLowBits(k, i, j) ==
    IF k >= 31 THEN i = j ELSE i % (2 ^ k) = j % (2 ^ k)

\* the gates ssz_verify_proof adds for the index gi
VerifyProofGates(rt, lf, br, gi) ==
    LET r == ssz_restore_merkle_root(lf, br, gi)
    IN  r.gates \o <<AssertGate(rt, r.hash)>>

\* C17: ssz_restore_merkle_root checks no bound on the index and reads only
\* its k lowest little-endian bits for a branch of length k: every index j
\* with j mod 2^k = gindex mod 2^k restores the same root from the same leaf
\* and branch, and ssz_verify_proof accepts j exactly when it accepts
\* gindex, whether or not the constant-index variant admits the index.
C17_OnlyLowBitsRead ==
    dynRoot # NoDigest =>
        \A j \in Gindexes :
            SameLowBits(Len(branch), gindex, j) =>
                /\ ssz_restore_merkle_root(leaf, branch, j).hash = dynRoot
                /\ Satisfied(VerifyProofGates(root, leaf, branch, j))
                       <=> Satisfied(VerifyProofGates(root, leaf, branch, gindex))

\* a proof was made and verified for an index the constant-index variant
\* rejects, with the root of a smaller index that has the same low bits
C17_Witness ==
    /\ phase = "verified"
    /\ "dyn" \in asserted
    /\ constRoot = NoDigest
    /\ Len(branch) > 0
    /\ ~GindexInRange(Len(branch), gindex)
    /\ \E j \in Gindexes :
          /\ j # gindex
          /\ GindexInRange(Len(branch), j)
          /\ SameLowBits(Len(branch), gindex, j)
          /\ root = ssz_restore_merkle_root_const(leaf, branch, j).hash

====
